---- MODULE Spec2Model ----
(***************************************************************************)
(* Model of the self-validating record types of AI-Release-Guardian        *)
(* (src/src/models/*.py, pydantic v2 models with frozen=True).             *)
(*                                                                         *)
(* The program has no long-running process: its operations are the record  *)
(* constructors, and a record depends on nothing but the arguments of the  *)
(* call that built it.  A behaviour of the model therefore follows one     *)
(* constructor call: call is the class called ("none" before the call),    *)
(* args the keyword arguments it was given and result what came back (the  *)
(* validated instance, or the set of validation errors raised).            *)
(*                                                                         *)
(* Numbers.  int fields are integers.  float fields are fixed-point        *)
(* integers on the grid noted at each class (hundredths unless said        *)
(* otherwise), so that the tolerances 0.01 and 1.0 and the thresholds 0.05 *)
(* and 0.5 of the source are exact grid values.                            *)
(*                                                                         *)
(* Fields a class declares that no validator or computed field modelled    *)
(* here reads (build_id, summary, timestamp, ...) are left out of the      *)
(* argument records: they are taken as supplied and well-typed.            *)
(***************************************************************************)
EXTENDS Integers, Sequences, FiniteSets, TLC

VARIABLES call, args, result, live, ops, reloaded

vars == <<call, args, result, live, ops, reloaded>>

(***************************************************************************)
(* Outcomes of a constructor call.                                         *)
(***************************************************************************)
NoValue == [type |-> "none"]

Accepted(v) == [ok |-> TRUE, value |-> v, errors |-> {}]

Rejected(errs) == [ok |-> FALSE, value |-> NoValue, errors |-> errs]

\* pydantic collects every error of a validation pass; the call fails iff
\* the collection is non-empty.
Outcome(v, errs) == IF errs = {} THEN Accepted(v) ELSE Rejected(errs)

AbsInt(x) == IF x < 0 THEN -x ELSE x

RECURSIVE SumSeq(_)
SumSeq(s) == IF s = <<>> THEN 0 ELSE Head(s) + SumSeq(Tail(s))

SeqsUpTo(S, n) == UNION {[1..k -> S] : k \in 0..n}

\* The constructor call returns r: live is the instance the caller now
\* holds (nothing when the call raised), ops the operations the caller has
\* performed on it since, reloaded the outcome of a dump and reload.
Constructed(r) ==
    /\ result' = r
    /\ live' = r.value
    /\ ops' = <<>>
    /\ reloaded' = NoValue

(***************************************************************************)
(* test_report.py : TestAnalysisReport                                     *)
(***************************************************************************)
\* Largest count value supplied for total_tests/passed/failed/skipped/errored.
MaxCount == 2

\* -1 exercises the ge=0 constraint of every count field.
CountInputs == -1..MaxCount

\* The count fields in declaration order, which is pydantic's validation order.
TestAnalysisReportFields ==
    <<"total_tests", "passed", "failed", "skipped", "errored">>

\* The fields carrying @field_validator("passed","failed","skipped","errored").
CountValidatedFields == {"passed", "failed", "skipped", "errored"}

\* Field(ge=0) on each count field.
CountFieldOk(v) == v >= 0

\* validate_test_counts_sum(cls, v, info): TRUE iff it raises.  data is
\* info.data: the fields validated before the one being validated.
validate_test_counts_sum(data, v) ==
    /\ {"total_tests", "passed", "failed", "skipped", "errored"} \subseteq DOMAIN data
    /\ data["passed"] + data["failed"] + data["skipped"] + data["errored"]
          # data["total_tests"]

\* info.data after the first n count fields were processed: a field enters it
\* only if its constraint and its field validator passed.
RECURSIVE ValidatedData(_, _)
ValidatedData(a, n) ==
    IF n = 0 THEN [f \in {} |-> 0]
    ELSE LET data == ValidatedData(a, n - 1)
             name == TestAnalysisReportFields[n]
             v    == a[name]
             ok   == /\ CountFieldOk(v)
                     /\ (name \in CountValidatedFields
                            => ~validate_test_counts_sum(data, v))
         IN IF ok
            THEN [f \in DOMAIN data \cup {name} |->
                     IF f = name THEN v ELSE data[f]]
            ELSE data

\* TestAnalysisReport(**a)
TestAnalysisReport(a) ==
    LET data == ValidatedData(a, Len(TestAnalysisReportFields))
        missing == {TestAnalysisReportFields[i] :
                       i \in 1..Len(TestAnalysisReportFields)} \ DOMAIN data
    IN Outcome([type |-> "TestAnalysisReport",
                total_tests |-> a.total_tests, passed |-> a.passed,
                failed |-> a.failed, skipped |-> a.skipped,
                errored |-> a.errored],
               missing)

TestAnalysisReportArgs ==
    [total_tests : CountInputs, passed : CountInputs, failed : CountInputs,
     skipped : CountInputs, errored : CountInputs]

NewTestAnalysisReport ==
    /\ call = "none"
    /\ \E a \in TestAnalysisReportArgs :
        /\ call' = "TestAnalysisReport"
        /\ args' = a
        /\ Constructed(TestAnalysisReport(a))

(***************************************************************************)
(* test_report.py : CoverageReport.  delta_from_baseline in hundredths of  *)
(* a percentage point.                                                     *)
(***************************************************************************)
\* Largest line count supplied for total_lines and covered_lines.
MaxLines == 2

\* 1.0, the drop beyond which is_coverage_regression holds.
RegressionDrop == 100

\* -1 exercises Field(ge=0).
LineInputs == -1..MaxLines

\* Deltas on both sides of -1.0, and no change.
DeltaInputs == {-101, -100, -99, 0}

CoverageReportArgs ==
    [total_lines : LineInputs, covered_lines : LineInputs,
     delta_from_baseline : DeltaInputs]

\* info.data when covered_lines is validated: total_lines, declared before
\* it, is there iff it passed Field(ge=0).
CoverageData(a) ==
    IF a.total_lines >= 0 THEN [f \in {"total_lines"} |-> a.total_lines]
    ELSE [f \in {} |-> 0]

\* Variant of covered_lines_must_not_exceed_total that tests total_lines for
\* truth instead of for None.
covered_lines_total_truthy(data, v) ==
    /\ "total_lines" \in DOMAIN data
    /\ data["total_lines"] # 0
    /\ v > data["total_lines"]

\* covered_lines_must_not_exceed_total(cls, v, info): TRUE iff it raises.
\* info.data.get("total_lines") is None iff the key is absent.
covered_lines_must_not_exceed_total(data, v) ==
    /\ "total_lines" \in DOMAIN data
    /\ v > data["total_lines"]

\* Field(ge=0) on total_lines; Field(ge=0), then the field validator, on
\* covered_lines.
CoverageReportFieldErrors(a) ==
    {f \in {"total_lines"} : ~(a.total_lines >= 0)}
        \cup {f \in {"covered_lines"} :
                ~(a.covered_lines >= 0)
                  \/ covered_lines_must_not_exceed_total(CoverageData(a), a.covered_lines)}

\* CoverageReport.is_coverage_regression
is_coverage_regression(self) == self.delta_from_baseline < -RegressionDrop

\* CoverageReport(**a)
CoverageReport(a) ==
    Outcome([type |-> "CoverageReport", total_lines |-> a.total_lines,
             covered_lines |-> a.covered_lines,
             delta_from_baseline |-> a.delta_from_baseline],
            CoverageReportFieldErrors(a))

NewCoverageReport ==
    /\ call = "none"
    /\ \E a \in CoverageReportArgs :
        /\ call' = "CoverageReport"
        /\ args' = a
        /\ Constructed(CoverageReport(a))

(***************************************************************************)
(* Model validators (@model_validator(mode="after")) run only when every   *)
(* field passed its own constraints, in definition order; the first one    *)
(* that raises ends the pass.  checks is the sequence of                   *)
(* <<validator name, raises>> pairs in definition order.                   *)
(***************************************************************************)
RECURSIVE FirstRaised(_)
FirstRaised(checks) ==
    IF checks = <<>> THEN {}
    ELSE IF Head(checks)[2] THEN {Head(checks)[1]}
    ELSE FirstRaised(Tail(checks))

Validate(v, fieldErrors, checks) ==
    Outcome(v, IF fieldErrors # {} THEN fieldErrors ELSE FirstRaised(checks))

(***************************************************************************)
(* perf_report.py : BenchmarkResult.  Latencies in whole milliseconds.     *)
(***************************************************************************)
\* Largest latency value supplied.
MaxLatency == 3

\* -1 exercises Field(ge=0).
LatencyInputs == -1..MaxLatency

BenchmarkResultArgs ==
    [latency_p50_ms : LatencyInputs, latency_p95_ms : LatencyInputs,
     latency_p99_ms : LatencyInputs]

\* Field(ge=0) on the three latency fields.
BenchmarkResultFieldErrors(a) ==
    {f \in {"latency_p50_ms", "latency_p95_ms", "latency_p99_ms"} : ~(a[f] >= 0)}

\* Variant of validate_percentile_ordering that demands strictly increasing
\* percentiles.
validate_percentile_ordering_strict(self) ==
    ~(self.latency_p50_ms < self.latency_p95_ms
        /\ self.latency_p95_ms < self.latency_p99_ms)

\* validate_percentile_ordering(self): TRUE iff it raises.
validate_percentile_ordering(self) ==
    ~(self.latency_p50_ms <= self.latency_p95_ms
        /\ self.latency_p95_ms <= self.latency_p99_ms)

\* BenchmarkResult(**a)
BenchmarkResult(a) ==
    Validate([type |-> "BenchmarkResult",
              latency_p50_ms |-> a.latency_p50_ms,
              latency_p95_ms |-> a.latency_p95_ms,
              latency_p99_ms |-> a.latency_p99_ms],
             BenchmarkResultFieldErrors(a),
             << <<"validate_percentile_ordering", validate_percentile_ordering(a)>> >>)

NewBenchmarkResult ==
    /\ call = "none"
    /\ \E a \in BenchmarkResultArgs :
        /\ call' = "BenchmarkResult"
        /\ args' = a
        /\ Constructed(BenchmarkResult(a))

(***************************************************************************)
(* perf_report.py : MetricComparison.  p_value and cohens_d in hundredths. *)
(***************************************************************************)
\* 0.05, the significance level of is_statistically_significant.
SignificanceLevel == 5

\* 0.5, the effect size of is_practically_significant.
EffectSizeThreshold == 50

\* le=1.0 of p_value.
PValueMax == 100

\* Samples on both sides of 0.05 and of the range [0, 1].
PValueInputs == {-1, 3, 5, 10, 101}

\* Samples on both sides of 0.5 and of the bound ge=0.
CohensDInputs == {-1, 40, 50, 60}

MetricComparisonArgs ==
    [p_value : PValueInputs, cohens_d : CohensDInputs, is_regression : BOOLEAN]

\* Field(ge=0.0, le=1.0) on p_value, Field(ge=0) on cohens_d.
MetricComparisonFieldErrors(a) ==
    {f \in {"p_value"} : ~(a.p_value >= 0 /\ a.p_value <= PValueMax)}
        \cup {f \in {"cohens_d"} : ~(a.cohens_d >= 0)}

\* MetricComparison.is_statistically_significant
is_statistically_significant(self) == self.p_value < SignificanceLevel

\* MetricComparison.is_practically_significant
is_practically_significant(self) == self.cohens_d > EffectSizeThreshold

\* MetricComparison(**a): the class declares no validator.
MetricComparison(a) ==
    Validate([type |-> "MetricComparison", p_value |-> a.p_value,
              cohens_d |-> a.cohens_d, is_regression |-> a.is_regression],
             MetricComparisonFieldErrors(a), <<>>)

NewMetricComparison ==
    /\ call = "none"
    /\ \E a \in MetricComparisonArgs :
        /\ call' = "MetricComparison"
        /\ args' = a
        /\ Constructed(MetricComparison(a))

(***************************************************************************)
(* perf_report.py : PerformanceAnalysisReport                              *)
(***************************************************************************)
\* Longest comparisons list supplied.
MaxComparisons == 2

\* The comparisons a report is built from: significant and not, with either
\* is_regression flag, and an out-of-range p_value.
ComparisonSamples ==
    {a \in MetricComparisonArgs : a.p_value \in {3, 101} /\ a.cohens_d \in {40, 60}}

PerformanceAnalysisReportArgs ==
    [comparisons : SeqsUpTo(ComparisonSamples, MaxComparisons),
     regressions_detected : -1..(MaxComparisons + 1)]

\* list[MetricComparison]: every entry is validated as a MetricComparison;
\* Field(ge=0) on regressions_detected.
PerformanceAnalysisReportFieldErrors(a) ==
    {f \in {"comparisons"} :
        \E i \in 1..Len(a.comparisons) : ~MetricComparison(a.comparisons[i]).ok}
        \cup {f \in {"regressions_detected"} : ~(a.regressions_detected >= 0)}

\* sum(1 for c in self.comparisons if c.is_regression)
actual_regressions(comparisons) ==
    Cardinality({i \in 1..Len(comparisons) : comparisons[i].is_regression})

\* Variant of validate_regressions_count that rejects only an overcount.
validate_regressions_count_overcount(self) ==
    self.regressions_detected > actual_regressions(self.comparisons)

\* validate_regressions_count(self): TRUE iff it raises.
validate_regressions_count(self) ==
    self.regressions_detected # actual_regressions(self.comparisons)

\* PerformanceAnalysisReport(**a)
PerformanceAnalysisReport(a) ==
    Validate([type |-> "PerformanceAnalysisReport",
              comparisons |->
                  [i \in 1..Len(a.comparisons) |-> MetricComparison(a.comparisons[i]).value],
              regressions_detected |-> a.regressions_detected],
             PerformanceAnalysisReportFieldErrors(a),
             << <<"validate_regressions_count", validate_regressions_count(a)>> >>)

NewPerformanceAnalysisReport ==
    /\ call = "none"
    /\ \E a \in PerformanceAnalysisReportArgs :
        /\ call' = "PerformanceAnalysisReport"
        /\ args' = a
        /\ Constructed(PerformanceAnalysisReport(a))

(***************************************************************************)
(* risk_assessment.py : RiskBreakdown.  raw_score in whole points, weight  *)
(* and weighted_score in hundredths, so raw_score * weight is in           *)
(* hundredths too.                                                         *)
(***************************************************************************)
\* le=100 of raw_score.
RawScoreMax == 100

\* le=1.0 of weight.
WeightMax == 100

\* 0.01, the tolerance of validate_weighted_score.
WeightedScoreTolerance == 1

\* Field(ge=0, le=100) on raw_score, Field(ge=0, le=1.0) on weight,
\* Field(ge=0) on weighted_score.
RiskBreakdownFieldErrors(a) ==
    {f \in {"raw_score"} : ~(a.raw_score >= 0 /\ a.raw_score <= RawScoreMax)}
        \cup {f \in {"weight"} : ~(a.weight >= 0 /\ a.weight <= WeightMax)}
        \cup {f \in {"weighted_score"} : ~(a.weighted_score >= 0)}

\* Variant of validate_weighted_score that compares the signed difference.
validate_weighted_score_signed(self) ==
    LET expected == self.raw_score * self.weight
    IN self.weighted_score - expected > WeightedScoreTolerance

\* validate_weighted_score(self): TRUE iff it raises.
validate_weighted_score(self) ==
    LET expected == self.raw_score * self.weight
    IN AbsInt(self.weighted_score - expected) > WeightedScoreTolerance

\* RiskBreakdown(**a)
RiskBreakdown(a) ==
    Validate([type |-> "RiskBreakdown", category |-> a.category,
              raw_score |-> a.raw_score, weight |-> a.weight,
              weighted_score |-> a.weighted_score],
             RiskBreakdownFieldErrors(a),
             << <<"validate_weighted_score", validate_weighted_score(a)>> >>)

\* Arguments of a RiskBreakdown: category c, raw score r, weight w and a
\* weighted score d hundredths away from r * w.
BreakdownArg(c, r, w, d) ==
    [category |-> c, raw_score |-> r, weight |-> w, weighted_score |-> r * w + d]

RiskBreakdownArgs ==
    {BreakdownArg(c, r, w, d) :
        c \in {"test_risk"}, r \in {-1, 0, 28, 100, 101}, w \in {-1, 0, 30, 100, 101},
        d \in {-2, -1, 0, 1, 2, 60}}

NewRiskBreakdown ==
    /\ call = "none"
    /\ \E a \in RiskBreakdownArgs :
        /\ call' = "RiskBreakdown"
        /\ args' = a
        /\ Constructed(RiskBreakdown(a))

(***************************************************************************)
(* risk_assessment.py : BlastRadius                                        *)
(***************************************************************************)
\* Longest services_affected list supplied.
MaxServices == 7

\* Longest critical_services_affected list supplied.
MaxCritical == 3

\* The service names the lists are drawn from; a list may repeat a name.
ServiceNames == {"api", "db"}

BlastRadiusArgs ==
    [services_affected : SeqsUpTo(ServiceNames, MaxServices),
     critical_services_affected : SeqsUpTo(ServiceNames, MaxCritical)]

\* x in list
InList(x, list) == \E i \in 1..Len(list) : list[i] = x

\* Variant of validate_critical_services_in_affected that looks at the first
\* critical service only.
validate_critical_services_first_only(self) ==
    /\ Len(self.critical_services_affected) > 0
    /\ ~InList(self.critical_services_affected[1], self.services_affected)

\* validate_critical_services_in_affected(self): TRUE iff it raises.
validate_critical_services_in_affected(self) ==
    \E i \in 1..Len(self.critical_services_affected) :
        ~InList(self.critical_services_affected[i], self.services_affected)

\* BlastRadius.scope: the thresholds of the two counts.
ExtremeServices == 7
ExtremeCritical == 3
LargeServices == 4
LargeCritical == 2
ModerateServices == 2

\* Variant of scope that tests the moderate band before the large one.
scope_moderate_first(self) ==
    LET num_services == Len(self.services_affected)
        num_critical == Len(self.critical_services_affected)
    IN IF num_services >= ExtremeServices \/ num_critical >= ExtremeCritical
       THEN "extreme"
       ELSE IF num_services >= ModerateServices /\ num_services < LargeServices
       THEN "moderate"
       ELSE IF num_services >= LargeServices \/ num_critical >= LargeCritical
       THEN "large"
       ELSE "minimal"

\* BlastRadius.scope
scope(self) ==
    LET num_services == Len(self.services_affected)
        num_critical == Len(self.critical_services_affected)
    IN IF num_services >= ExtremeServices \/ num_critical >= ExtremeCritical
       THEN "extreme"
       ELSE IF num_services >= LargeServices \/ num_critical >= LargeCritical
       THEN "large"
       ELSE IF num_services >= ModerateServices
       THEN "moderate"
       ELSE "minimal"

\* BlastRadius.involves_critical_path
involves_critical_path(self) == Len(self.critical_services_affected) > 0

\* BlastRadius(**a): list[str] fields have no per-field constraint.
BlastRadius(a) ==
    Validate([type |-> "BlastRadius",
              services_affected |-> a.services_affected,
              critical_services_affected |-> a.critical_services_affected],
             {},
             << <<"validate_critical_services_in_affected",
                  validate_critical_services_in_affected(a)>> >>)

NewBlastRadius ==
    /\ call = "none"
    /\ \E a \in BlastRadiusArgs :
        /\ call' = "BlastRadius"
        /\ args' = a
        /\ Constructed(BlastRadius(a))

(***************************************************************************)
(* risk_assessment.py : RiskAssessment.  composite_risk_score is an int;   *)
(* the weighted scores it is compared with are in hundredths.              *)
(***************************************************************************)
\* le=100 of composite_risk_score.
CompositeScoreMax == 100

\* One point of composite_risk_score in hundredths.
Hundredths == 100

\* 1.0, the tolerance of validate_weighted_scores_sum, in hundredths.
CompositeTolerance == 100

\* The bands of validate_confidence_level_matches_score.
HighMaxScore == 20
MediumMaxScore == 50
LowMaxScore == 75

\* Literal["HIGH", "MEDIUM", "LOW", "CRITICAL"]
ConfidenceLevels == {"HIGH", "MEDIUM", "LOW", "CRITICAL"}

\* Longest risk_breakdown list supplied.
MaxBreakdown == 2

\* Every score of the range and one value beyond each end.
CompositeScoreInputs == -1..(CompositeScoreMax + 1)

\* The four literals and a string that is none of them.
ConfidenceLevelInputs == ConfidenceLevels \cup {"UNKNOWN"}

\* The breakdown entries supplied with composite score s: entries that carry
\* the whole score or one point less, exactly or 0.01 short, a small entry
\* (2 * 0.50, exactly or 0.01 over) that adds one point, and an entry whose
\* weighted_score is not raw_score * weight.
BreakdownSamples(s) ==
    {BreakdownArg("test_risk", s - 1, 100, 0), BreakdownArg("test_risk", s - 1, 100, -1),
     BreakdownArg("performance_risk", s, 100, 0),
     BreakdownArg("historical_risk", 2, 50, 0), BreakdownArg("historical_risk", 2, 50, 1),
     BreakdownArg("blast_radius_risk", 0, 0, 2)}

\* A valid and an invalid blast radius.
BlastRadiusSamples ==
    {[services_affected |-> <<"api">>, critical_services_affected |-> <<"api">>],
     [services_affected |-> <<>>, critical_services_affected |-> <<"api">>]}

\* Field(ge=0, le=100) on composite_risk_score, the Literal of
\* confidence_level, and the nested models of risk_breakdown and blast_radius.
RiskAssessmentFieldErrors(a) ==
    {f \in {"composite_risk_score"} :
        ~(a.composite_risk_score >= 0 /\ a.composite_risk_score <= CompositeScoreMax)}
        \cup {f \in {"confidence_level"} : a.confidence_level \notin ConfidenceLevels}
        \cup {f \in {"risk_breakdown"} :
                \E i \in 1..Len(a.risk_breakdown) : ~RiskBreakdown(a.risk_breakdown[i]).ok}
        \cup {f \in {"blast_radius"} : ~BlastRadius(a.blast_radius).ok}

\* sum(rb.weighted_score for rb in self.risk_breakdown)
total_weighted(risk_breakdown) ==
    SumSeq([i \in 1..Len(risk_breakdown) |-> risk_breakdown[i].weighted_score])

\* Variant of validate_weighted_scores_sum that rejects a deviation of
\* exactly 1.0 too.
validate_weighted_scores_sum_exclusive(self) ==
    AbsInt(total_weighted(self.risk_breakdown) - self.composite_risk_score * Hundredths)
        >= CompositeTolerance

\* validate_weighted_scores_sum(self): TRUE iff it raises.
validate_weighted_scores_sum(self) ==
    AbsInt(total_weighted(self.risk_breakdown) - self.composite_risk_score * Hundredths)
        > CompositeTolerance

\* Variant of expected_level whose bands exclude their upper boundary.
expected_level_exclusive(score) ==
    IF score < HighMaxScore THEN "HIGH"
    ELSE IF score < MediumMaxScore THEN "MEDIUM"
    ELSE IF score < LowMaxScore THEN "LOW"
    ELSE "CRITICAL"

\* expected_level of validate_confidence_level_matches_score
expected_level(score) ==
    IF score <= HighMaxScore THEN "HIGH"
    ELSE IF score <= MediumMaxScore THEN "MEDIUM"
    ELSE IF score <= LowMaxScore THEN "LOW"
    ELSE "CRITICAL"

\* validate_confidence_level_matches_score(self): TRUE iff it raises.
validate_confidence_level_matches_score(self) ==
    self.confidence_level # expected_level(self.composite_risk_score)

\* RiskAssessment(**a)
RiskAssessment(a) ==
    Validate([type |-> "RiskAssessment",
              composite_risk_score |-> a.composite_risk_score,
              confidence_level |-> a.confidence_level,
              risk_breakdown |->
                  [i \in 1..Len(a.risk_breakdown) |-> RiskBreakdown(a.risk_breakdown[i]).value],
              blast_radius |-> BlastRadius(a.blast_radius).value],
             RiskAssessmentFieldErrors(a),
             << <<"validate_weighted_scores_sum", validate_weighted_scores_sum(a)>>,
                <<"validate_confidence_level_matches_score",
                  validate_confidence_level_matches_score(a)>> >>)

\* Python's None as the value of an attribute that otherwise holds a record.
NoneValue == [type |-> "NoneType"]

RECURSIVE max_last(_, _, _)
RECURSIVE max_by_weighted_score(_, _, _)
\* Variant of max_by_weighted_score in which a later entry with an equal key
\* replaces the entry kept so far.
max_last(list, i, best) ==
    IF i > Len(list) THEN best
    ELSE max_last(list, i + 1,
                  IF list[i].weighted_score >= best.weighted_score THEN list[i] ELSE best)

\* max(list, key=lambda rb: rb.weighted_score), scanning from index i with
\* best the entry kept so far: an entry replaces it only with a strictly
\* greater key.
max_by_weighted_score(list, i, best) ==
    IF i > Len(list) THEN best
    ELSE max_by_weighted_score(list, i + 1,
                  IF list[i].weighted_score > best.weighted_score THEN list[i] ELSE best)

\* RiskAssessment.top_risk_factor
top_risk_factor(self) ==
    IF self.risk_breakdown = <<>> THEN NoneValue
    ELSE max_by_weighted_score(self.risk_breakdown, 2, self.risk_breakdown[1])

NewRiskAssessment ==
    /\ call = "none"
    /\ \E s \in CompositeScoreInputs, l \in ConfidenceLevelInputs, b \in BlastRadiusSamples :
        \E rb \in SeqsUpTo(BreakdownSamples(s), MaxBreakdown) :
            LET a == [composite_risk_score |-> s, confidence_level |-> l,
                      risk_breakdown |-> rb, blast_radius |-> b]
            IN /\ call' = "RiskAssessment"
               /\ args' = a
               /\ Constructed(RiskAssessment(a))

(***************************************************************************)
(* release_decision.py : ReleaseDecision                                   *)
(***************************************************************************)
\* Literal["APPROVE", "BLOCK", "REQUEST_REVIEW"]
Decisions == {"APPROVE", "BLOCK", "REQUEST_REVIEW"}

\* Literal["proceed", "hold", "abort", "none"]
PipelineActions == {"proceed", "hold", "abort", "none"}

\* Python's None, as the value of overridden_by; no reviewer id supplied
\* below is this string.
None == "None"

\* The fields of ReleaseDecision that have a default.
ReleaseDecisionDefaults ==
    [manual_override |-> FALSE, overridden_by |-> None, pipeline_action_taken |-> "none"]

\* The three literals and a string that is none of them.
DecisionInputs == Decisions \cup {"DEFER"}

\* The four literals and a string that is none of them.
PipelineActionInputs == PipelineActions \cup {"skip"}

\* No reviewer, or a reviewer id.
OverriddenByInputs == {None, "alice"}

\* Field(le=100) on risk_score
RiskScoreMax == 100

\* Two scores in range and one beyond each end of Field(ge=0, le=100).
RiskScoreInputs == {-1, 1, 80, RiskScoreMax + 1}

\* The keyword arguments of a call: supplied is the set of defaulted fields
\* the caller passed; a field not in it holds its default.
ReleaseDecisionArgs ==
    {a \in [decision : DecisionInputs, risk_score : RiskScoreInputs,
            manual_override : BOOLEAN,
            overridden_by : OverriddenByInputs,
            pipeline_action_taken : PipelineActionInputs,
            supplied : SUBSET {"manual_override", "overridden_by", "pipeline_action_taken"}] :
        \A f \in DOMAIN ReleaseDecisionDefaults :
            f \notin a.supplied => a[f] = ReleaseDecisionDefaults[f]}

\* The Literal types of decision and pipeline_action_taken, and
\* Field(ge=0, le=100) on risk_score.
ReleaseDecisionFieldErrors(a) ==
    {f \in {"decision"} : a.decision \notin Decisions}
        \cup {f \in {"risk_score"} : ~(a.risk_score >= 0 /\ a.risk_score <= RiskScoreMax)}
        \cup {f \in {"pipeline_action_taken"} : a.pipeline_action_taken \notin PipelineActions}

\* Variant of validate_manual_override_has_reviewer with the override test
\* negated.
validate_manual_override_negated(self) ==
    ~self.manual_override /\ self.overridden_by = None

\* validate_manual_override_has_reviewer(self): TRUE iff it raises.
validate_manual_override_has_reviewer(self) ==
    self.manual_override /\ self.overridden_by = None

\* expected_actions of validate_pipeline_action_matches_decision
expected_actions(decision) ==
    CASE decision = "APPROVE" -> "proceed"
      [] decision = "BLOCK" -> "abort"
      [] decision = "REQUEST_REVIEW" -> "hold"

\* Variant of validate_pipeline_action_matches_decision that lets a manual
\* override carry any action.
validate_pipeline_action_unless_override(self) ==
    LET expected == expected_actions(self.decision)
    IN ~self.manual_override /\ self.pipeline_action_taken # expected

\* Variant of validate_pipeline_action_matches_decision that lets the
\* default action "none" pass.
validate_pipeline_action_or_none(self) ==
    LET expected == expected_actions(self.decision)
    IN self.pipeline_action_taken # expected /\ self.pipeline_action_taken # "none"

\* validate_pipeline_action_matches_decision(self): TRUE iff it raises.
validate_pipeline_action_matches_decision(self) ==
    LET expected == expected_actions(self.decision)
    IN self.pipeline_action_taken # expected

\* ReleaseDecision(**a)
ReleaseDecision(a) ==
    Validate([type |-> "ReleaseDecision", decision |-> a.decision,
              risk_score |-> a.risk_score,
              manual_override |-> a.manual_override,
              overridden_by |-> a.overridden_by,
              pipeline_action_taken |-> a.pipeline_action_taken],
             ReleaseDecisionFieldErrors(a),
             << <<"validate_manual_override_has_reviewer",
                  validate_manual_override_has_reviewer(a)>>,
                <<"validate_pipeline_action_matches_decision",
                  validate_pipeline_action_matches_decision(a)>> >>)

NewReleaseDecision ==
    /\ call = "none"
    /\ \E a \in ReleaseDecisionArgs :
        /\ call' = "ReleaseDecision"
        /\ args' = a
        /\ Constructed(ReleaseDecision(a))

(***************************************************************************)
(* release_decision.py : AuditRecord.  The decision is passed as keyword   *)
(* arguments and validated; a snapshot is passed as None or as an          *)
(* instance, which pydantic accepts as it is when it is of the field's     *)
(* class.                                                                  *)
(***************************************************************************)
\* A valid decision of a low and of a high risk score, and one that leaves
\* pipeline_action_taken to its default.
AuditDecisionSamples ==
    {a \in ReleaseDecisionArgs :
        /\ ~a.manual_override
        /\ a.overridden_by = None
        /\ \/ (a.decision = "APPROVE" /\ a.risk_score = 1
                 /\ a.pipeline_action_taken = "proceed"
                 /\ a.supplied = {"pipeline_action_taken"})
           \/ (a.decision = "BLOCK" /\ a.risk_score = 80
                 /\ a.pipeline_action_taken \in {"abort", "none"}
                 /\ a.supplied = {"pipeline_action_taken"} \cap
                                   {f \in {"pipeline_action_taken"} :
                                       a.pipeline_action_taken # "none"})}

\* test_report_snapshot: None, a TestAnalysisReport, or an instance of
\* another class.
TestReportSnapshots ==
    {NoneValue,
     TestAnalysisReport([total_tests |-> 2, passed |-> 2, failed |-> 0,
                         skipped |-> 0, errored |-> 0]).value,
     BlastRadius([services_affected |-> <<"api">>,
                  critical_services_affected |-> <<>>]).value}

\* perf_report_snapshot: None, or a PerformanceAnalysisReport of one
\* comparison.
PerfReportSnapshots ==
    {NoneValue,
     PerformanceAnalysisReport(
         [comparisons |-> <<[p_value |-> 3, cohens_d |-> 40, is_regression |-> FALSE]>>,
          regressions_detected |-> 0]).value}

\* risk_assessment_snapshot: None, or a RiskAssessment of composite score 1.
RiskAssessmentSnapshots ==
    {NoneValue,
     RiskAssessment(
         [composite_risk_score |-> 1, confidence_level |-> "HIGH",
          risk_breakdown |-> <<BreakdownArg("performance_risk", 1, 100, 0)>>,
          blast_radius |-> [services_affected |-> <<"api">>,
                            critical_services_affected |-> <<"api">>]]).value}

\* No error, or one.
ErrorsEncounteredInputs == {<<>>, <<"timeout">>}

\* Seconds, on both sides of Field(ge=0).
ExecutionTimeInputs == {-1, 12}

AuditRecordArgs ==
    [decision : AuditDecisionSamples,
     test_report_snapshot : TestReportSnapshots,
     perf_report_snapshot : PerfReportSnapshots,
     risk_assessment_snapshot : RiskAssessmentSnapshots,
     graph_execution_time_seconds : ExecutionTimeInputs,
     errors_encountered : ErrorsEncounteredInputs]

\* An instance of a model class, which carries its class, as opposed to a
\* dict of field values.
IsInstance(v) == "type" \in DOMAIN v

\* Validation of a field typed X | None, X one of the three report classes:
\* None stays None, an instance of X is kept as it is, a dict is validated
\* by X, an instance of another class is an error.
OptionalModel(v, class) ==
    IF v = NoneValue THEN Accepted(NoneValue)
    ELSE IF IsInstance(v)
    THEN (IF v.type = class THEN Accepted(v) ELSE Rejected({"model_type"}))
    ELSE CASE class = "TestAnalysisReport" -> TestAnalysisReport(v)
           [] class = "PerformanceAnalysisReport" -> PerformanceAnalysisReport(v)
           [] class = "RiskAssessment" -> RiskAssessment(v)

\* The nested model of decision, the classes of the three snapshots, and
\* Field(ge=0) on graph_execution_time_seconds.
AuditRecordFieldErrors(a) ==
    {f \in {"decision"} : ~ReleaseDecision(a.decision).ok}
        \cup {f \in {"test_report_snapshot"} :
                ~OptionalModel(a.test_report_snapshot, "TestAnalysisReport").ok}
        \cup {f \in {"perf_report_snapshot"} :
                ~OptionalModel(a.perf_report_snapshot, "PerformanceAnalysisReport").ok}
        \cup {f \in {"risk_assessment_snapshot"} :
                ~OptionalModel(a.risk_assessment_snapshot, "RiskAssessment").ok}
        \cup {f \in {"graph_execution_time_seconds"} :
                ~(a.graph_execution_time_seconds >= 0)}

\* Variant of AuditRecordValidators with a validator that reconciles the
\* decision's risk_score with the risk snapshot's composite score.
AuditRecordValidatorsReconciling(self) ==
    << <<"validate_risk_score_matches_snapshot",
         /\ self.risk_assessment_snapshot # NoneValue
         /\ self.decision.risk_score
              # self.risk_assessment_snapshot.composite_risk_score>> >>

\* The model validators of AuditRecord: the class declares none.
AuditRecordValidators(self) == <<>>

\* AuditRecord.had_errors
had_errors(self) == Len(self.errors_encountered) > 0

\* AuditRecord.is_complete
is_complete(self) ==
    /\ self.test_report_snapshot # NoneValue
    /\ self.perf_report_snapshot # NoneValue
    /\ self.risk_assessment_snapshot # NoneValue

\* AuditRecord(**a)
AuditRecord(a) ==
    LET self == [type |-> "AuditRecord",
                 decision |-> ReleaseDecision(a.decision).value,
                 test_report_snapshot |->
                     OptionalModel(a.test_report_snapshot, "TestAnalysisReport").value,
                 perf_report_snapshot |->
                     OptionalModel(a.perf_report_snapshot,
                                   "PerformanceAnalysisReport").value,
                 risk_assessment_snapshot |->
                     OptionalModel(a.risk_assessment_snapshot, "RiskAssessment").value,
                 graph_execution_time_seconds |-> a.graph_execution_time_seconds,
                 errors_encountered |-> a.errors_encountered]
    IN Validate(self, AuditRecordFieldErrors(a), AuditRecordValidators(self))

NewAuditRecord ==
    /\ call = "none"
    /\ \E a \in AuditRecordArgs :
        /\ call' = "AuditRecord"
        /\ args' = a
        /\ Constructed(AuditRecord(a))

(***************************************************************************)
(* build_metadata.py : GitDiff                                             *)
(***************************************************************************)
\* Longest list supplied for files_added, files_modified, files_deleted.
MaxFiles == 1

FileLists == SeqsUpTo({"app.py"}, MaxFiles)

\* Line counts on both sides of Field(ge=0).
LinesChangedInputs == {-1, 5}

GitDiffArgs ==
    [files_added : FileLists, files_modified : FileLists, files_deleted : FileLists,
     total_lines_changed : LinesChangedInputs]

\* Field(ge=0) on total_lines_changed
GitDiffFieldErrors(a) ==
    {f \in {"total_lines_changed"} : ~(a.total_lines_changed >= 0)}

\* GitDiff.total_files_changed
total_files_changed(self) ==
    Len(self.files_added) + Len(self.files_modified) + Len(self.files_deleted)

\* GitDiff(**a)
GitDiff(a) ==
    Outcome([type |-> "GitDiff", files_added |-> a.files_added,
             files_modified |-> a.files_modified, files_deleted |-> a.files_deleted,
             total_lines_changed |-> a.total_lines_changed],
            GitDiffFieldErrors(a))

NewGitDiff ==
    /\ call = "none"
    /\ \E a \in GitDiffArgs :
        /\ call' = "GitDiff"
        /\ args' = a
        /\ Constructed(GitDiff(a))

(***************************************************************************)
(* release_decision.py : PolicyEvaluation                                  *)
(***************************************************************************)
PolicyEvaluationArgs ==
    [raw_decision : DecisionInputs, final_decision : DecisionInputs]

\* The Literal types of raw_decision and final_decision.
PolicyEvaluationFieldErrors(a) ==
    {f \in {"raw_decision", "final_decision"} : a[f] \notin Decisions}

\* PolicyEvaluation.was_overridden
was_overridden(self) == self.raw_decision # self.final_decision

\* PolicyEvaluation(**a)
PolicyEvaluation(a) ==
    Outcome([type |-> "PolicyEvaluation", raw_decision |-> a.raw_decision,
             final_decision |-> a.final_decision],
            PolicyEvaluationFieldErrors(a))

NewPolicyEvaluation ==
    /\ call = "none"
    /\ \E a \in PolicyEvaluationArgs :
        /\ call' = "PolicyEvaluation"
        /\ args' = a
        /\ Constructed(PolicyEvaluation(a))

(***************************************************************************)
(* What a caller can do with a constructed instance.                       *)
(***************************************************************************)
\* Most operations performed on one instance.
MaxOps == 1

\* model_config = ConfigDict(frozen=True), in every class.
frozen(class) == TRUE

\* The declared fields of each class, as modelled.
Fields(class) ==
    CASE class = "TestAnalysisReport" ->
           {"total_tests", "passed", "failed", "skipped", "errored"}
      [] class = "CoverageReport" -> {"total_lines", "covered_lines", "delta_from_baseline"}
      [] class = "BenchmarkResult" -> {"latency_p50_ms", "latency_p95_ms", "latency_p99_ms"}
      [] class = "MetricComparison" -> {"p_value", "cohens_d", "is_regression"}
      [] class = "PerformanceAnalysisReport" -> {"comparisons", "regressions_detected"}
      [] class = "RiskBreakdown" -> {"category", "raw_score", "weight", "weighted_score"}
      [] class = "BlastRadius" -> {"services_affected", "critical_services_affected"}
      [] class = "RiskAssessment" ->
           {"composite_risk_score", "confidence_level", "risk_breakdown", "blast_radius"}
      [] class = "ReleaseDecision" ->
           {"decision", "risk_score", "manual_override", "overridden_by",
            "pipeline_action_taken"}
      [] class = "AuditRecord" ->
           {"decision", "test_report_snapshot", "perf_report_snapshot",
            "risk_assessment_snapshot", "graph_execution_time_seconds",
            "errors_encountered"}
      [] class = "GitDiff" ->
           {"files_added", "files_modified", "files_deleted", "total_lines_changed"}
      [] class = "PolicyEvaluation" -> {"raw_decision", "final_decision"}

\* The @computed_field properties of each class, as modelled.
ComputedFields(class) ==
    CASE class = "CoverageReport" -> {"is_coverage_regression"}
      [] class = "MetricComparison" ->
           {"is_statistically_significant", "is_practically_significant"}
      [] class = "BlastRadius" -> {"involves_critical_path", "scope"}
      [] class = "RiskAssessment" -> {"top_risk_factor"}
      [] class = "AuditRecord" -> {"had_errors", "is_complete"}
      [] class = "GitDiff" -> {"total_files_changed"}
      [] class = "PolicyEvaluation" -> {"was_overridden"}
      [] OTHER -> {}

\* The value of a @computed_field property: the getter runs on every access.
computed(self, attr) ==
    CASE attr = "is_coverage_regression" -> is_coverage_regression(self)
      [] attr = "is_statistically_significant" -> is_statistically_significant(self)
      [] attr = "is_practically_significant" -> is_practically_significant(self)
      [] attr = "involves_critical_path" -> involves_critical_path(self)
      [] attr = "scope" -> scope(self)
      [] attr = "top_risk_factor" -> top_risk_factor(self)
      [] attr = "had_errors" -> had_errors(self)
      [] attr = "is_complete" -> is_complete(self)
      [] attr = "total_files_changed" -> total_files_changed(self)
      [] attr = "was_overridden" -> was_overridden(self)

\* self.attr: a property of the class is found before anything stored on
\* the instance.
getattr(self, attr) ==
    IF attr \in ComputedFields(self.type) THEN computed(self, attr) ELSE self[attr]

\* self.attr = None.  A frozen model rejects every assignment; a property
\* without a setter rejects it in any model.
setattr(self, attr) ==
    IF frozen(self.type) \/ attr \notin Fields(self.type)
    THEN [raised |-> TRUE, self |-> self]
    ELSE [raised |-> FALSE, self |-> [self EXCEPT ![attr] = NoneValue]]

\* The list-valued fields reachable from an instance, each as the path of
\* attribute names that leads to it.
ListPaths(self) ==
    CASE self.type = "BlastRadius" ->
           {<<"services_affected">>, <<"critical_services_affected">>}
      [] self.type = "PerformanceAnalysisReport" -> {<<"comparisons">>}
      [] self.type = "RiskAssessment" ->
           {<<"risk_breakdown">>, <<"blast_radius", "critical_services_affected">>}
      [] self.type = "GitDiff" -> {<<"files_added">>}
      [] self.type = "AuditRecord" ->
           {<<"errors_encountered">>}
             \cup {p \in {<<"perf_report_snapshot", "comparisons">>} :
                      self.perf_report_snapshot # NoneValue}
             \cup {p \in {<<"risk_assessment_snapshot", "risk_breakdown">>} :
                      self.risk_assessment_snapshot # NoneValue}
      [] OTHER -> {}

\* What the caller appends to the list at the end of a path: a service
\* name or an error text, a regressed MetricComparison, a RiskBreakdown of
\* weighted score 100.
AppendedItem(path) ==
    LET attr == path[Len(path)]
    IN CASE attr = "comparisons" ->
              MetricComparison([p_value |-> 3, cohens_d |-> 60, is_regression |-> TRUE]).value
         [] attr = "risk_breakdown" ->
              RiskBreakdown(BreakdownArg("historical_risk", 100, 100, 0)).value
         [] attr = "errors_encountered" -> "late failure"
         [] OTHER -> "db"

\* self.a.append(item) or self.a.b.append(item): list.append mutates the
\* list object in place; no model code runs.
list_append(self, path, item) ==
    IF Len(path) = 1
    THEN [self EXCEPT ![path[1]] = Append(@, item)]
    ELSE [self EXCEPT ![path[1]][path[2]] = Append(@, item)]

\* How a field of a model class keeps an instance passed to the constructor:
\* pydantic's default revalidate_instances = 'never' keeps the very object.
InstanceFieldStorage == "reference"

\* The lists of the objects passed as snapshots to the AuditRecord
\* constructor, as paths from the AuditRecord.
OriginalListPaths(self) ==
    {p \in ListPaths(self) : Len(p) = 2}

\* The caller assigns to an attribute of the instance.
SetAttr ==
    /\ call # "none"
    /\ result.ok
    /\ Len(ops) < MaxOps
    /\ \E attr \in Fields(live.type) \cup ComputedFields(live.type) :
        LET r == setattr(live, attr)
        IN /\ live' = r.self
           /\ ops' = Append(ops, [op |-> "setattr", via |-> "instance",
                                  path |-> <<attr>>, raised |-> r.raised])
    /\ UNCHANGED <<call, args, result, reloaded>>

\* The caller appends to a list reached from the instance.
ListAppend ==
    /\ call # "none"
    /\ result.ok
    /\ Len(ops) < MaxOps
    /\ \E path \in ListPaths(live) :
        /\ live' = list_append(live, path, AppendedItem(path))
        /\ ops' = Append(ops, [op |-> "append", via |-> "instance",
                               path |-> path, raised |-> FALSE])
    /\ UNCHANGED <<call, args, result, reloaded>>

\* The caller appends to a list of an object it passed as a snapshot to the
\* AuditRecord constructor and still holds.
OriginalAppend ==
    /\ call = "AuditRecord"
    /\ result.ok
    /\ Len(ops) < MaxOps
    /\ \E path \in OriginalListPaths(live) :
        /\ live' = IF InstanceFieldStorage = "reference"
                   THEN list_append(live, path, AppendedItem(path))
                   ELSE live
        /\ ops' = Append(ops, [op |-> "append", via |-> "original",
                               path |-> path, raised |-> FALSE])
    /\ UNCHANGED <<call, args, result, reloaded>>

(***************************************************************************)
(* Serialization and reloading.                                            *)
(***************************************************************************)
RECURSIVE model_dump(_)
\* self.model_dump(): the declared fields, nested models dumped in turn, and
\* the @computed_field properties.
model_dump(self) ==
    CASE self.type = "NoneType" -> NoneValue
      [] self.type = "TestAnalysisReport" ->
           [total_tests |-> self.total_tests, passed |-> self.passed,
            failed |-> self.failed, skipped |-> self.skipped, errored |-> self.errored]
      [] self.type = "CoverageReport" ->
           [total_lines |-> self.total_lines, covered_lines |-> self.covered_lines,
            delta_from_baseline |-> self.delta_from_baseline,
            is_coverage_regression |-> is_coverage_regression(self)]
      [] self.type = "BenchmarkResult" ->
           [latency_p50_ms |-> self.latency_p50_ms, latency_p95_ms |-> self.latency_p95_ms,
            latency_p99_ms |-> self.latency_p99_ms]
      [] self.type = "MetricComparison" ->
           [p_value |-> self.p_value, cohens_d |-> self.cohens_d,
            is_regression |-> self.is_regression,
            is_statistically_significant |-> is_statistically_significant(self),
            is_practically_significant |-> is_practically_significant(self)]
      [] self.type = "PerformanceAnalysisReport" ->
           [comparisons |->
                [i \in 1..Len(self.comparisons) |-> model_dump(self.comparisons[i])],
            regressions_detected |-> self.regressions_detected]
      [] self.type = "RiskBreakdown" ->
           [category |-> self.category, raw_score |-> self.raw_score,
            weight |-> self.weight, weighted_score |-> self.weighted_score]
      [] self.type = "BlastRadius" ->
           [services_affected |-> self.services_affected,
            critical_services_affected |-> self.critical_services_affected,
            involves_critical_path |-> involves_critical_path(self),
            scope |-> scope(self)]
      [] self.type = "RiskAssessment" ->
           [composite_risk_score |-> self.composite_risk_score,
            confidence_level |-> self.confidence_level,
            risk_breakdown |->
                [i \in 1..Len(self.risk_breakdown) |-> model_dump(self.risk_breakdown[i])],
            blast_radius |-> model_dump(self.blast_radius),
            top_risk_factor |-> model_dump(top_risk_factor(self))]
      [] self.type = "ReleaseDecision" ->
           [decision |-> self.decision, risk_score |-> self.risk_score,
            manual_override |-> self.manual_override,
            overridden_by |-> self.overridden_by,
            pipeline_action_taken |-> self.pipeline_action_taken]
      [] self.type = "AuditRecord" ->
           [decision |-> model_dump(self.decision),
            test_report_snapshot |-> model_dump(self.test_report_snapshot),
            perf_report_snapshot |-> model_dump(self.perf_report_snapshot),
            risk_assessment_snapshot |-> model_dump(self.risk_assessment_snapshot),
            graph_execution_time_seconds |-> self.graph_execution_time_seconds,
            errors_encountered |-> self.errors_encountered,
            had_errors |-> had_errors(self),
            is_complete |-> is_complete(self)]
      [] self.type = "GitDiff" ->
           [files_added |-> self.files_added, files_modified |-> self.files_modified,
            files_deleted |-> self.files_deleted,
            total_lines_changed |-> self.total_lines_changed,
            total_files_changed |-> total_files_changed(self)]
      [] self.type = "PolicyEvaluation" ->
           [raw_decision |-> self.raw_decision, final_decision |-> self.final_decision,
            was_overridden |-> was_overridden(self)]

\* Variant of ExtraFieldErrors for extra = 'forbid'.
ExtraFieldsForbidden(class, d) == DOMAIN d \ Fields(class)

\* The errors raised for keys of d that are no declared field: none, no
\* model_config sets extra, and pydantic's default is 'ignore'.
ExtraFieldErrors(class, d) == {}

\* Variant of KeptExtras for extra = 'allow'.
ExtrasAllowed(class, d) == [k \in DOMAIN d \ Fields(class) |-> d[k]]

\* The keys of d that are no declared field and are kept on the instance
\* all the same: none under extra = 'ignore'.
KeptExtras(class, d) == [k \in {} |-> NoneValue]

\* class(**d), d a dict that may hold keys that are no declared field.
Construct(class, d) ==
    LET r == CASE class = "TestAnalysisReport" -> TestAnalysisReport(d)
               [] class = "CoverageReport" -> CoverageReport(d)
               [] class = "BenchmarkResult" -> BenchmarkResult(d)
               [] class = "MetricComparison" -> MetricComparison(d)
               [] class = "PerformanceAnalysisReport" -> PerformanceAnalysisReport(d)
               [] class = "RiskBreakdown" -> RiskBreakdown(d)
               [] class = "BlastRadius" -> BlastRadius(d)
               [] class = "RiskAssessment" -> RiskAssessment(d)
               [] class = "ReleaseDecision" -> ReleaseDecision(d)
               [] class = "AuditRecord" -> AuditRecord(d)
               [] class = "GitDiff" -> GitDiff(d)
               [] class = "PolicyEvaluation" -> PolicyEvaluation(d)
        extra == ExtraFieldErrors(class, d)
    IN IF extra # {} THEN Rejected(extra)
       ELSE IF r.ok THEN Accepted(r.value @@ KeptExtras(class, d))
       ELSE r

\* class(**self.model_dump())
Reload(self) == Construct(self.type, model_dump(self))

\* The caller dumps the instance and constructs a record of the same class
\* from the dump, and does the same with the record obtained.
RoundTrip ==
    /\ call # "none"
    /\ result.ok
    /\ reloaded = NoValue
    /\ reloaded' = [from |-> live, once |-> Reload(live),
                    twice |-> IF Reload(live).ok THEN Reload(Reload(live).value)
                              ELSE Reload(live)]
    /\ UNCHANGED <<call, args, result, live, ops>>

(***************************************************************************)
(* Construction with a keyword argument named like a computed field.       *)
(***************************************************************************)
\* The classes called with such a keyword argument.
ClassesWithComputed == {"GitDiff", "PolicyEvaluation", "BlastRadius", "AuditRecord"}

\* The other keyword arguments of these calls.
SampleArgs(class) ==
    CASE class = "GitDiff" -> GitDiffArgs
      [] class = "PolicyEvaluation" -> PolicyEvaluationArgs
      [] class = "BlastRadius" -> BlastRadiusSamples
      [] class = "AuditRecord" -> AuditRecordArgs

\* The values passed under the name of a computed field: for each field two
\* values, so that one differs from the derived value.
ComputedKwargValues(attr) ==
    CASE attr = "total_files_changed" -> {0, 99}
      [] attr = "scope" -> {"minimal", "extreme"}
      [] OTHER -> BOOLEAN

\* class(**a, attr=x), attr the name of a computed field of the class.
NewWithComputedKwarg ==
    /\ call = "none"
    /\ \E class \in ClassesWithComputed :
        \E a \in SampleArgs(class) :
            \E attr \in ComputedFields(class) :
                \E x \in ComputedKwargValues(attr) :
                    /\ call' = class
                    /\ args' = a @@ (attr :> x)
                    /\ Constructed(Construct(class, a @@ (attr :> x)))

(***************************************************************************)
(* The state machine.                                                      *)
(***************************************************************************)
Init ==
    /\ call = "none"
    /\ args = NoValue
    /\ result = Rejected({})
    /\ live = NoValue
    /\ ops = <<>>
    /\ reloaded = NoValue

Next ==
    \/ NewTestAnalysisReport
    \/ NewCoverageReport
    \/ NewBenchmarkResult
    \/ NewMetricComparison
    \/ NewPerformanceAnalysisReport
    \/ NewRiskBreakdown
    \/ NewBlastRadius
    \/ NewRiskAssessment
    \/ NewReleaseDecision
    \/ NewAuditRecord
    \/ SetAttr
    \/ ListAppend
    \/ OriginalAppend
    \/ RoundTrip
    \/ NewGitDiff
    \/ NewPolicyEvaluation
    \/ NewWithComputedKwarg

Spec == Init /\ [][Next]_vars

(***************************************************************************)
(* Properties.                                                             *)
(***************************************************************************)
\* C1: every constructed TestAnalysisReport has
\* passed + failed + skipped + errored = total_tests (a construction whose
\* counts do not add up to total_tests fails).
C1_CountsReconcile ==
    (call = "TestAnalysisReport" /\ result.ok)
        => result.value.passed + result.value.failed + result.value.skipped
             + result.value.errored = result.value.total_tests

\* C2: every constructed MetricComparison has
\* is_regression = (p_value < 0.05 and cohens_d > 0.5); a construction whose
\* is_regression disagrees with that predicate is rejected.
C2_RegressionFlagMatches ==
    (call = "MetricComparison" /\ result.ok)
        => (result.value.is_regression
              <=> (result.value.p_value < 5 /\ result.value.cohens_d > 50))

\* C3: every constructed RiskAssessment has a score in 0..100 and the
\* confidence_level of the score's band: 0..20 HIGH, 21..50 MEDIUM,
\* 51..75 LOW, 76..100 CRITICAL; a call with any other level fails.
C3_ConfidenceBand ==
    (call = "RiskAssessment" /\ result.ok)
        => LET score == result.value.composite_risk_score
               level == result.value.confidence_level
           IN /\ score \in 0..100
              /\ (score \in 0..20 => level = "HIGH")
              /\ (score \in 21..50 => level = "MEDIUM")
              /\ (score \in 51..75 => level = "LOW")
              /\ (score \in 76..100 => level = "CRITICAL")

\* A RiskAssessment was built on the boundary of a band: score 20 with HIGH.
C3_Witness ==
    /\ call = "RiskAssessment"
    /\ result.ok
    /\ result.value.composite_risk_score = 20
    /\ result.value.confidence_level = "HIGH"

\* |sum of the supplied weighted scores - composite score|, in hundredths.
SuppliedDeviation ==
    LET rb == args.risk_breakdown
        total == SumSeq([i \in 1..Len(rb) |-> rb[i].weighted_score])
    IN AbsInt(total - 100 * args.composite_risk_score)

\* C4: a RiskAssessment call whose weighted scores sum to more than 1.0 away
\* from composite_risk_score fails, and a call whose sum is within 1.0
\* (1.0 itself included, the empty list summing to 0) is not rejected by
\* validate_weighted_scores_sum.
C4_WeightedSumTolerance ==
    call = "RiskAssessment"
        => /\ (SuppliedDeviation > 100 => ~result.ok)
           /\ (SuppliedDeviation <= 100
                 => "validate_weighted_scores_sum" \notin result.errors)

\* A RiskAssessment was built from a non-empty breakdown whose sum is exactly
\* 1.0 away from the composite score.
C4_Witness ==
    /\ call = "RiskAssessment"
    /\ result.ok
    /\ Len(args.risk_breakdown) > 0
    /\ SuppliedDeviation = 100

\* The one action each decision maps to.
FixedAction(d) ==
    IF d = "APPROVE" THEN "proceed" ELSE IF d = "BLOCK" THEN "abort" ELSE "hold"

\* C5: every constructed ReleaseDecision has the action of its decision
\* (APPROVE->proceed, BLOCK->abort, REQUEST_REVIEW->hold), and for every
\* decision, with the manual_override of the call, a reviewer named and a
\* risk_score in 0..100, exactly that one action of the literal set is
\* constructible.
C5_DecisionActionMapping ==
    call = "ReleaseDecision"
        => /\ (result.ok
                 => /\ result.value.decision \in {"APPROVE", "BLOCK", "REQUEST_REVIEW"}
                    /\ result.value.pipeline_action_taken = FixedAction(result.value.decision))
           /\ \A d \in {"APPROVE", "BLOCK", "REQUEST_REVIEW"} :
                args.risk_score \in 0..100 =>
                {p \in {"proceed", "hold", "abort", "none"} :
                    ReleaseDecision([args EXCEPT !.decision = d,
                                                 !.pipeline_action_taken = p,
                                                 !.overridden_by = "alice"]).ok}
                  = {FixedAction(d)}

\* A manually overridden BLOCK was built.
C5_Witness ==
    /\ call = "ReleaseDecision"
    /\ result.ok
    /\ result.value.manual_override
    /\ result.value.decision = "BLOCK"

\* C6: no constructed ReleaseDecision has manual_override = true with
\* overridden_by unset; a call with manual_override = true and no reviewer
\* fails whatever the decision/action pair; with manual_override = false a
\* call with a matching decision/action pair and a risk_score in 0..100
\* succeeds without a reviewer.
C6_OverrideNeedsReviewer ==
    call = "ReleaseDecision"
        => /\ (result.ok
                 => ~(result.value.manual_override /\ result.value.overridden_by = None))
           /\ ((args.manual_override /\ args.overridden_by = None) => ~result.ok)
           /\ ((/\ ~args.manual_override
                /\ args.risk_score \in 0..100
                /\ args.decision \in {"APPROVE", "BLOCK", "REQUEST_REVIEW"}
                /\ args.pipeline_action_taken = FixedAction(args.decision))
                 => result.ok)

\* A call with manual_override = true, no reviewer and a matching
\* decision/action pair was rejected.
C6_Witness ==
    /\ call = "ReleaseDecision"
    /\ args.manual_override
    /\ args.overridden_by = None
    /\ args.decision = "APPROVE"
    /\ args.pipeline_action_taken = "proceed"
    /\ ~result.ok

\* The names in a list.
Names(list) == {list[i] : i \in 1..Len(list)}

\* C7: every constructed BlastRadius has each critical service among its
\* services_affected, and a call with a critical service that is not among
\* them fails.
C7_CriticalSubset ==
    call = "BlastRadius"
        => /\ (result.ok
                 => Names(result.value.critical_services_affected)
                      \subseteq Names(result.value.services_affected))
           /\ (~(Names(args.critical_services_affected)
                   \subseteq Names(args.services_affected))
                 => ~result.ok)

\* A BlastRadius with two distinct critical services was built.
C7_Witness ==
    /\ call = "BlastRadius"
    /\ result.ok
    /\ Cardinality(Names(result.value.critical_services_affected)) = 2

\* C8: for every constructed BlastRadius with s services and c critical
\* services, scope is extreme iff s >= 7 or c >= 3; otherwise large iff
\* s >= 4 or c >= 2; otherwise moderate iff s >= 2; otherwise minimal.
C8_ScopePrecedence ==
    (call = "BlastRadius" /\ result.ok)
        => LET s == Len(result.value.services_affected)
               c == Len(result.value.critical_services_affected)
               sc == scope(result.value)
           IN /\ (sc = "extreme" <=> (s >= 7 \/ c >= 3))
              /\ (sc = "large" <=> (~(s >= 7 \/ c >= 3) /\ (s >= 4 \/ c >= 2)))
              /\ (sc = "moderate"
                    <=> (~(s >= 7 \/ c >= 3) /\ ~(s >= 4 \/ c >= 2) /\ s >= 2))
              /\ (sc = "minimal"
                    <=> (~(s >= 7 \/ c >= 3) /\ ~(s >= 4 \/ c >= 2) /\ ~(s >= 2)))

\* A BlastRadius with 3 services and 2 critical services was built and its
\* scope is large.
C8_Witness ==
    /\ call = "BlastRadius"
    /\ result.ok
    /\ Len(result.value.services_affected) = 3
    /\ Len(result.value.critical_services_affected) = 2
    /\ scope(result.value) = "large"

\* C9: every constructed BenchmarkResult has p50 <= p95 <= p99; a call with
\* p50 > p95 or p95 > p99 fails; a call with three equal non-negative
\* percentiles succeeds.
C9_PercentileOrdering ==
    call = "BenchmarkResult"
        => /\ (result.ok
                 => /\ result.value.latency_p50_ms <= result.value.latency_p95_ms
                    /\ result.value.latency_p95_ms <= result.value.latency_p99_ms)
           /\ ((args.latency_p50_ms > args.latency_p95_ms
                  \/ args.latency_p95_ms > args.latency_p99_ms) => ~result.ok)
           /\ ((/\ args.latency_p50_ms >= 0
                /\ args.latency_p50_ms = args.latency_p95_ms
                /\ args.latency_p95_ms = args.latency_p99_ms) => result.ok)

\* A BenchmarkResult with three equal positive percentiles was built.
C9_Witness ==
    /\ call = "BenchmarkResult"
    /\ result.ok
    /\ result.value.latency_p50_ms = 1
    /\ result.value.latency_p95_ms = 1
    /\ result.value.latency_p99_ms = 1

\* The number of entries of a comparisons list whose is_regression is true.
RegressionCount(comparisons) ==
    Len(SelectSeq(comparisons, LAMBDA c : c.is_regression))

\* C10: every constructed PerformanceAnalysisReport has regressions_detected
\* equal to the number of its comparisons whose is_regression is true, and
\* a call with any other regressions_detected (a non-zero one with an empty
\* list included) fails.
C10_RegressionsCount ==
    call = "PerformanceAnalysisReport"
        => /\ (result.ok
                 => result.value.regressions_detected
                      = RegressionCount(result.value.comparisons))
           /\ (args.regressions_detected # RegressionCount(args.comparisons)
                 => ~result.ok)

\* A report with a regression and a non-regression among its comparisons was
\* built.
C10_Witness ==
    /\ call = "PerformanceAnalysisReport"
    /\ result.ok
    /\ Len(result.value.comparisons) = 2
    /\ result.value.regressions_detected = 1

\* C11: a RiskBreakdown is constructed only if its weighted_score is within
\* 0.01 of raw_score * weight, with raw_score in [0, 100] and weight in
\* [0, 1]; {raw 28.0, weight 0.30, weighted 8.40} is accepted and
\* {raw 28.0, weight 0.30, weighted 9.00} is rejected.
C11_WeightedScoreTolerance ==
    call = "RiskBreakdown"
        => /\ (result.ok
                 => LET v == result.value
                        diff == v.weighted_score - v.raw_score * v.weight
                    IN /\ v.raw_score \in 0..100
                       /\ v.weight \in 0..100
                       /\ diff \in -1..1)
           /\ ((args.raw_score = 28 /\ args.weight = 30 /\ args.weighted_score = 840)
                 => result.ok)
           /\ ((args.raw_score = 28 /\ args.weight = 30 /\ args.weighted_score = 900)
                 => ~result.ok)

\* The RiskBreakdown {raw 28.0, weight 0.30, weighted 8.40} was built.
C11_Witness ==
    /\ call = "RiskBreakdown"
    /\ result.ok
    /\ result.value.raw_score = 28
    /\ result.value.weight = 30
    /\ result.value.weighted_score = 840

\* C15: every constructed CoverageReport has covered_lines <= total_lines,
\* a call with covered_lines > total_lines fails for every total_lines >= 0
\* (0 included), and is_coverage_regression is true exactly when
\* delta_from_baseline < -1.0.
C15_CoverageBounds ==
    call = "CoverageReport"
        => /\ (result.ok => result.value.covered_lines <= result.value.total_lines)
           /\ ((args.total_lines >= 0 /\ args.covered_lines > args.total_lines)
                 => ~result.ok)
           /\ (result.ok
                 => (is_coverage_regression(result.value)
                       <=> result.value.delta_from_baseline < -100))

\* A CoverageReport of an empty code base whose coverage dropped by exactly
\* 1.0 was built, and it is no regression.
C15_Witness ==
    /\ call = "CoverageReport"
    /\ result.ok
    /\ result.value.total_lines = 0
    /\ result.value.delta_from_baseline = -100
    /\ ~is_coverage_regression(result.value)


\* C14: for every constructed RiskAssessment, top_risk_factor is None when
\* risk_breakdown is empty, and otherwise it is the entry of risk_breakdown
\* of maximal weighted_score that has the smallest index among the maximal
\* ones.
C14_TopRiskFactor ==
    (call = "RiskAssessment" /\ result.ok)
        => LET rb == result.value.risk_breakdown
               top == top_risk_factor(result.value)
           IN IF Len(rb) = 0 THEN top = NoneValue
              ELSE \E i \in 1..Len(rb) :
                      /\ top = rb[i]
                      /\ \A j \in 1..Len(rb) : rb[j].weighted_score <= rb[i].weighted_score
                      /\ \A j \in 1..(i - 1) : rb[j].weighted_score < rb[i].weighted_score

\* A RiskAssessment was built whose two breakdown entries, of different
\* categories, tie on weighted_score; the first is the top risk factor.
C14_Witness ==
    /\ call = "RiskAssessment"
    /\ result.ok
    /\ Len(result.value.risk_breakdown) = 2
    /\ result.value.risk_breakdown[1].weighted_score
         = result.value.risk_breakdown[2].weighted_score
    /\ result.value.risk_breakdown[1].category # result.value.risk_breakdown[2].category
    /\ top_risk_factor(result.value) = result.value.risk_breakdown[1]


\* C19: for every constructed BlastRadius the bands of the scope docstring
\* hold: scope is "minimal" only with at most 1 service affected and no
\* critical service, and "moderate" only with 2 or 3 services affected and
\* at most 1 critical service.
C19_ScopeDocstringBands ==
    (call = "BlastRadius" /\ result.ok)
        => LET num_services == Len(result.value.services_affected)
               num_critical == Len(result.value.critical_services_affected)
           IN /\ (scope(result.value) = "minimal"
                    => (num_services \in 0..1 /\ num_critical = 0))
              /\ (scope(result.value) = "moderate"
                    => (num_services \in 2..3 /\ num_critical \in 0..1))


\* C20: no constructed ReleaseDecision has pipeline_action_taken = "none",
\* and a call that does not supply pipeline_action_taken fails, whatever the
\* decision.
C20_DefaultActionRejected ==
    call = "ReleaseDecision"
        => /\ (result.ok => result.value.pipeline_action_taken # "none")
           /\ ("pipeline_action_taken" \notin args.supplied => ~result.ok)

\* An otherwise valid call (a decision of the Literal, no override) that
\* leaves pipeline_action_taken to its default was rejected by the
\* decision/action validator.
C20_Witness ==
    /\ call = "ReleaseDecision"
    /\ args.decision = "APPROVE"
    /\ ~args.manual_override
    /\ "pipeline_action_taken" \notin args.supplied
    /\ ~result.ok
    /\ result.errors = {"validate_pipeline_action_matches_decision"}


\* C18: AuditRecord reconciles nothing between the decision and the risk
\* snapshot: a call with a valid decision, snapshots that are None or of
\* their class, and a non-negative execution time succeeds whatever the two
\* scores are; and a constructed AuditRecord is complete exactly when all
\* three snapshots are present.
C18_NoScoreReconciliation ==
    call = "AuditRecord"
        => /\ ((/\ ReleaseDecision(args.decision).ok
                /\ args.test_report_snapshot.type \in {"NoneType", "TestAnalysisReport"}
                /\ args.graph_execution_time_seconds >= 0)
                 => result.ok)
           /\ (result.ok
                 => (is_complete(result.value)
                       <=> \A f \in {"test_report_snapshot", "perf_report_snapshot",
                                     "risk_assessment_snapshot"} :
                              result.value[f].type # "NoneType"))

\* An AuditRecord with all three snapshots was built whose decision has
\* risk_score 80 while the risk snapshot has composite score 1; it is
\* complete.
C18_Witness ==
    /\ call = "AuditRecord"
    /\ result.ok
    /\ result.value.risk_assessment_snapshot.type = "RiskAssessment"
    /\ result.value.decision.risk_score = 80
    /\ result.value.risk_assessment_snapshot.composite_risk_score = 1
    /\ is_complete(result.value)


\* The operations performed so far were all made through s ("instance": the
\* constructed record; "original": an object passed to its constructor).
AllVia(s) == \A i \in 1..Len(ops) : ops[i].via = s

\* C12: after any operations of the caller on a constructed record, every
\* field of the record holds the value it had at construction, and the
\* critical services of a BlastRadius are still among its affected ones.
C12_NothingChanges ==
    (call # "none" /\ result.ok /\ AllVia("instance"))
        => /\ live = result.value
           /\ (live.type = "BlastRadius"
                 => Names(live.critical_services_affected)
                      \subseteq Names(live.services_affected))

\* C13: after any operations made through the objects that were passed as
\* snapshots to the AuditRecord constructor, the snapshot fields of the
\* AuditRecord hold what they held at construction.
C13_SnapshotsAreCopies ==
    (call = "AuditRecord" /\ result.ok /\ AllVia("original"))
        => \A f \in {"test_report_snapshot", "perf_report_snapshot",
                     "risk_assessment_snapshot"} :
              live[f] = result.value[f]


\* C16: dumping a constructed record (the dump holds the computed views)
\* and constructing a record of its class from the dump succeeds and gives a
\* record equal to the original field for field; doing the same again gives
\* the same; and the reload runs the validators: a BlastRadius whose
\* critical services are no longer among the affected ones does not reload.
C16_RoundTrip ==
    (call # "none" /\ result.ok /\ reloaded # NoValue)
        => /\ (reloaded.from = result.value
                 => /\ reloaded.once.ok
                    /\ reloaded.once.value = result.value
                    /\ reloaded.twice = reloaded.once
                    /\ ComputedFields(result.value.type)
                         \subseteq DOMAIN model_dump(result.value))
           /\ ((/\ reloaded.from.type = "BlastRadius"
                /\ ~(Names(reloaded.from.critical_services_affected)
                       \subseteq Names(reloaded.from.services_affected)))
                 => ~reloaded.once.ok)

\* A complete AuditRecord was dumped and reloaded.
C16_Witness ==
    /\ call = "AuditRecord"
    /\ result.ok
    /\ reloaded # NoValue
    /\ reloaded.from = result.value
    /\ is_complete(reloaded.from)
    /\ reloaded.twice.ok


\* C17: a constructed record stores its declared fields and nothing under
\* the name of a computed attribute, also when the call passed a value
\* under that name; reading a computed attribute gives its derivation from
\* the fields the record holds now; and an assignment to a computed
\* attribute is rejected and changes nothing.
C17_DerivedViewsNotSettable ==
    (call # "none" /\ result.ok)
        => /\ DOMAIN result.value = Fields(call) \cup {"type"}
           /\ (call = "GitDiff"
                 => getattr(live, "total_files_changed")
                      = Len(live.files_added) + Len(live.files_modified)
                          + Len(live.files_deleted))
           /\ (call = "PolicyEvaluation"
                 => (getattr(live, "was_overridden")
                       <=> live.raw_decision # live.final_decision))
           /\ (call = "AuditRecord"
                 => /\ getattr(live, "had_errors") <=> live.errors_encountered # <<>>
                    /\ getattr(live, "is_complete")
                         <=> \A f \in {"test_report_snapshot", "perf_report_snapshot",
                                       "risk_assessment_snapshot"} :
                                live[f].type # "NoneType")
           /\ (call = "BlastRadius"
                 => /\ getattr(live, "involves_critical_path")
                         <=> live.critical_services_affected # <<>>
                    /\ getattr(live, "scope") = "extreme"
                         <=> (Len(live.services_affected) >= 7
                                \/ Len(live.critical_services_affected) >= 3))
           /\ \A i \in 1..Len(ops) :
                ops[i].op = "setattr" => ops[i].raised
           /\ ((\A i \in 1..Len(ops) : ops[i].op = "setattr") => live = result.value)

\* A GitDiff was built by a call that passed total_files_changed = 99, and
\* then an assignment to total_files_changed was attempted; the attribute is
\* the number of files in the three lists.
C17_Witness ==
    /\ call = "GitDiff"
    /\ result.ok
    /\ "total_files_changed" \in DOMAIN args
    /\ args.total_files_changed = 99
    /\ ops # <<>>
    /\ ops[1].op = "setattr"
    /\ ops[1].path = <<"total_files_changed">>
    /\ getattr(live, "total_files_changed") = 1


\* C21: for every BlastRadius as constructed, the number of entries of
\* critical_services_affected is at most the number of entries of
\* services_affected, repeated names included, and with fewer than 3
\* affected services the scope is not "extreme".
C21_CriticalCountBounded ==
    (call = "BlastRadius" /\ result.ok /\ ops = <<>>)
        => /\ Len(live.critical_services_affected) <= Len(live.services_affected)
           /\ (Len(live.services_affected) < 3 => scope(live) # "extreme")


====
